---- MODULE Spec2Model ----
(***************************************************************************)
(* Model of retail/notebooks/utils.py: the two notebook helpers            *)
(* evaluate(train, train_labels, test, test_labels) and                    *)
(* plot_feature_importances(df, n, threshold).                             *)
(*                                                                         *)
(* Each function is a straight sequence of statements; one action models   *)
(* one statement (or one group of plotting calls), with pc holding the     *)
(* line about to run.  Python objects live in heap, local names hold       *)
(* object ids, so that rebinding a name and mutating an object differ.     *)
(* Floating point numbers are modelled as exact rationals extended with    *)
(* NaN and the infinities; rounding error is not modelled.                 *)
(***************************************************************************)
EXTENDS Integers, Sequences, FiniteSets, TLC

VARIABLES pc, heap, df, n, threshold, importance_index, plots, printed,
          rcFontSize, ret,
          train, test, train_labels, test_labels, feature_names, model, preds

vars == <<pc, heap, df, n, threshold, importance_index, plots, printed,
          rcFontSize, ret,
          train, test, train_labels, test_labels, feature_names, model, preds>>

plotLocals == <<df, n, threshold, importance_index>>
evalLocals == <<train, test, train_labels, test_labels, feature_names, model, preds>>

(***************************************************************************)
(* Bounds of the model.                                                    *)
(***************************************************************************)
MaxLen == 3        \* rows of an importance table
MaxImp == 2        \* importance scores are 0..MaxImp
MaxN == 2          \* the n argument is 1..MaxN
MaxCols == 2       \* columns of a feature table
MaxTestRows == 2   \* rows of the test table

\* cv = 5 of cross_val_score: KFold needs at least that many samples
CV == 5
\* plt.rcParams['font.size'] = 12
FontSize == 12

(***************************************************************************)
(* Numbers: rationals n/d with d > 0, NaN, +inf, -inf, and Python's None.  *)
(***************************************************************************)
Rat(a, b) == [k |-> "num", n |-> a, d |-> b]
NaN == [k |-> "nan", n |-> 0, d |-> 1]
PosInf == [k |-> "inf", n |-> 1, d |-> 1]
NegInf == [k |-> "inf", n |-> -1, d |-> 1]
None == [k |-> "none", n |-> 0, d |-> 1]

\* float division x / s, including division by zero (numpy: 0/0 = nan, x/0 = +-inf)
Div(x, s) ==
    IF s # 0 THEN (IF s > 0 THEN Rat(x, s) ELSE Rat(-x, -s))
    ELSE IF x = 0 THEN NaN
    ELSE IF x > 0 THEN PosInf ELSE NegInf

\* float addition
Add(a, b) ==
    IF a.k = "nan" \/ b.k = "nan" THEN NaN
    ELSE IF a.k = "inf" /\ b.k = "inf" THEN (IF a.n = b.n THEN a ELSE NaN)
    ELSE IF a.k = "inf" THEN a
    ELSE IF b.k = "inf" THEN b
    ELSE IF a.d = b.d THEN Rat(a.n + b.n, a.d)
    ELSE Rat(a.n * b.d + b.n * a.d, a.d * b.d)

\* a > b on floats: every comparison with NaN is False
Gt(a, b) ==
    IF a.k = "nan" \/ b.k = "nan" THEN FALSE
    ELSE IF a.k = "inf" THEN a.n > 0 /\ ~(b.k = "inf" /\ b.n > 0)
    ELSE IF b.k = "inf" THEN b.n < 0
    ELSE a.n * b.d > b.n * a.d

\* the same float value (NaN in both places counts as the same, as in DataFrame.equals)
SameVal(a, b) ==
    IF a.k # b.k THEN FALSE
    ELSE IF a.k = "num" THEN a.n * b.d = b.n * a.d
    ELSE a.n = b.n

Geq(a, b) == Gt(a, b) \/ (SameVal(a, b) /\ a.k # "nan")

\* truth value of a Python object used as a condition: None and 0 are false
Truthy(v) == ~(v.k = "none" \/ (v.k = "num" /\ v.n = 0))

(***************************************************************************)
(* Tables (DataFrames): an index (row labels), the column names and the    *)
(* rows, each row a function from column name to value.                    *)
(***************************************************************************)
NoObj == [kind |-> "none"]
Frame(idx, cs, rs) == [kind |-> "frame", index |-> idx, columns |-> cs, rows |-> rs]

Names == <<"f1", "f2", "f3", "f4", "f5">>

RangeIndex(len) == [i \in 1..len |-> i - 1]

RECURSIVE SumInts(_)
SumInts(s) == IF s = <<>> THEN 0 ELSE Head(s) + SumInts(Tail(s))

Column(t, c) == [i \in 1..Len(t.rows) |-> t.rows[i][c]]

\* Series.sum() of a float column (skipna = True: NaN entries are left out)
RECURSIVE SeriesSum(_)
SeriesSum(s) ==
    IF s = <<>> THEN Rat(0, 1)
    ELSE IF Head(s).k = "nan" THEN SeriesSum(Tail(s))
    ELSE Add(Head(s), SeriesSum(Tail(s)))

\* the permutations of 1..len, as sequences
Perms(len) == {p \in [1..len -> 1..len] : \A i, j \in 1..len : i # j => p[i] # p[j]}

\* the orders an ascending sort could produce
SortOrdersAscending(t) ==
    {p \in Perms(Len(t.rows)) :
        \A i \in 1..(Len(t.rows) - 1) :
            t.rows[p[i]].importance <= t.rows[p[i + 1]].importance}

\* df.sort_values('importance', ascending = False): the rows, with their labels,
\* in an order of non-increasing importance.  The default sort is not stable,
\* so the order of ties is any order.
SortOrders(t) ==
    {p \in Perms(Len(t.rows)) :
        \A i \in 1..(Len(t.rows) - 1) :
            t.rows[p[i]].importance >= t.rows[p[i + 1]].importance}

SortValues(t, p) ==
    Frame([i \in 1..Len(t.rows) |-> t.index[p[i]]], t.columns,
          [i \in 1..Len(t.rows) |-> t.rows[p[i]]])

\* .reset_index(drop = True): same rows, labels 0..len-1
ResetIndex(t) == Frame(RangeIndex(Len(t.rows)), t.columns, t.rows)

\* df[c] = values on an existing frame: adds (or overwrites) column c
SetColumn(t, c, vals) ==
    Frame(t.index,
          IF \E i \in 1..Len(t.columns) : t.columns[i] = c
          THEN t.columns ELSE Append(t.columns, c),
          [i \in 1..Len(t.rows) |->
              [x \in (DOMAIN t.rows[i]) \cup {c} |->
                  IF x = c THEN vals[i] ELSE t.rows[i][x]]])

\* the largest of a non-empty sequence of integers
MaxInt(s) == CHOOSE x \in {s[i] : i \in 1..Len(s)} : \A i \in 1..Len(s) : s[i] <= x

\* normalization by the largest importance instead of by the sum
NormalizedByMax(t) ==
    LET top == MaxInt(Column(t, "importance"))
    IN  [i \in 1..Len(t.rows) |-> Div(t.rows[i].importance, top)]

\* df['importance'] / df['importance'].sum()
Normalized(t) ==
    LET total == SumInts(Column(t, "importance"))
    IN  [i \in 1..Len(t.rows) |-> Div(t.rows[i].importance, total)]

\* np.cumsum(series) = Series.cumsum(): running sum that skips NaN entries,
\* a NaN entry staying NaN in the result
RECURSIVE CumSumFrom(_, _)
CumSumFrom(acc, s) ==
    IF s = <<>> THEN <<>>
    ELSE IF Head(s).k = "nan" THEN <<NaN>> \o CumSumFrom(acc, Tail(s))
    ELSE <<Add(acc, Head(s))>> \o CumSumFrom(Add(acc, Head(s)), Tail(s))

\* a running sum that leaves out the row itself (sum of the rows before it)
CumSumExclusive(s) ==
    [i \in 1..Len(s) |-> IF i = 1 THEN Rat(0, 1) ELSE CumSumFrom(Rat(0, 1), s)[i - 1]]

CumSum(s) == CumSumFrom(Rat(0, 1), s)

\* df.loc[:n, :] on a frame with a sorted integer index: label based, and
\* a label slice includes its end point
LocUpTo(t, last) ==
    LET keep == {i \in 1..Len(t.rows) : t.index[i] <= last}
    IN  SubSeq(t.rows, 1, Cardinality(keep))

\* np.where(series > threshold)[0]: the positions whose value exceeds threshold
WhereGreater(s, t) == {i - 1 : i \in {j \in 1..Len(s) : Gt(s[j], t)}}

\* np.min of a non-empty set of positions
SetMin(S) == CHOOSE x \in S : \A y \in S : x <= y

(***************************************************************************)
(* Inputs.                                                                 *)
(***************************************************************************)
\* importance tables: columns "feature" and "importance", default index
ImportanceTables ==
    UNION {{Frame(RangeIndex(len), <<"feature", "importance">>,
                  [i \in 1..len |-> [feature |-> Names[i], importance |-> imp[i]]]) :
              imp \in [1..len -> 0..MaxImp]} : len \in 1..MaxLen}

Thresholds == {None, Rat(0, 1), Rat(1, 2), Rat(2, 3), Rat(1, 1), Rat(3, 2)}

ObjIds == {"df_arg", "df_sorted", "train_arg", "test_arg", "train_repl",
           "test_repl", "train_arr", "test_arr", "importances"}

Init ==
    /\ pc = "idle"
    /\ heap = [o \in ObjIds |-> NoObj]
    /\ df = "none" /\ n = 0 /\ threshold = None /\ importance_index = -1
    /\ plots = <<>> /\ printed = <<>>
    /\ rcFontSize = "default"
    /\ ret = [kind |-> "none"]
    /\ train = "none" /\ test = "none"
    /\ train_labels = <<>> /\ test_labels = <<>>
    /\ feature_names = <<>>
    /\ model = [fitted |-> FALSE]
    /\ preds = <<>>

(***************************************************************************)
(* plot_feature_importances(df, n, threshold)                              *)
(***************************************************************************)
\* the call: the caller's table is object df_arg, bound to the parameter df
CallPlot ==
    /\ pc = "idle"
    /\ \E t \in ImportanceTables, nn \in 1..MaxN, th \in Thresholds :
          /\ heap' = [heap EXCEPT !["df_arg"] = t]
          /\ df' = "df_arg"
          /\ n' = nn
          /\ threshold' = th
    /\ pc' = "p71"
    /\ UNCHANGED <<importance_index, plots, printed, rcFontSize, ret, evalLocals>>

\* line 71: df = df.sort_values(...).reset_index(drop = True); both calls
\* return a new frame, and the name df is bound to the result
SortedFrame(t, p) == ResetIndex(SortValues(t, p))

\* the same statement had it sorted in place: the frame df names is overwritten
Line71InPlace ==
    /\ pc = "p71"
    /\ \E p \in SortOrders(heap[df]) :
          heap' = [heap EXCEPT ![df] = SortedFrame(heap[df], p)]
    /\ pc' = "p74"
    /\ UNCHANGED <<plotLocals, plots, printed, rcFontSize, ret, evalLocals>>

Line71 ==
    /\ pc = "p71"
    /\ \E p \in SortOrders(heap[df]) :
          heap' = [heap EXCEPT !["df_sorted"] = SortedFrame(heap[df], p)]
    /\ df' = "df_sorted"
    /\ pc' = "p74"
    /\ UNCHANGED <<n, threshold, importance_index, plots, printed, rcFontSize,
                   ret, evalLocals>>

\* line 74: df['importance_normalized'] = ... mutates the frame df names
Line74 ==
    /\ pc = "p74"
    /\ heap' = [heap EXCEPT ![df] =
                  SetColumn(heap[df], "importance_normalized", Normalized(heap[df]))]
    /\ pc' = "p75"
    /\ UNCHANGED <<plotLocals, plots, printed, rcFontSize, ret, evalLocals>>

\* line 75: df['cumulative_importance'] = np.cumsum(df['importance_normalized'])
Line75 ==
    /\ pc = "p75"
    /\ heap' = [heap EXCEPT ![df] =
                  SetColumn(heap[df], "cumulative_importance",
                            CumSum(Column(heap[df], "importance_normalized")))]
    /\ pc' = "p77"
    /\ UNCHANGED <<plotLocals, plots, printed, rcFontSize, ret, evalLocals>>

\* the rows handed to the bar plot on line 80
BarRows(t, nn) == LocUpTo(t, nn)

\* lines 77-87: font size, bar plot of df.loc[:n, :], labels and title
Line77 ==
    /\ pc = "p77"
    /\ rcFontSize' = FontSize
    /\ plots' = Append(plots, [kind |-> "barh", rows |-> BarRows(heap[df], n),
                               title_n |-> n])
    /\ pc' = "p90"
    /\ UNCHANGED <<heap, plotLocals, printed, ret, evalLocals>>

\* line 90: if threshold:
ThresholdGiven(th) == Truthy(th)

Line90 ==
    /\ pc = "p90"
    /\ pc' = IF ThresholdGiven(threshold) THEN "p92" ELSE "p108"
    /\ UNCHANGED <<heap, plotLocals, plots, printed, rcFontSize, ret, evalLocals>>

\* lines 92-95: the cumulative importance figure
Line92 ==
    /\ pc = "p92"
    /\ plots' = Append(plots, [kind |-> "cumulative",
                               xs |-> RangeIndex(Len(heap[df].rows)),
                               ys |-> Column(heap[df], "cumulative_importance")])
    /\ pc' = "p99"
    /\ UNCHANGED <<heap, plotLocals, printed, rcFontSize, ret, evalLocals>>

\* the positions line 99 takes the minimum of
Matching(t, th) == WhereGreater(Column(t, "cumulative_importance"), th)

\* line 99: importance_index = np.min(np.where(cumulative > threshold));
\* np.min of an empty array raises ValueError
Line99 ==
    /\ pc = "p99"
    /\ IF Matching(heap[df], threshold) = {}
       THEN /\ pc' = "plot_raised"
            /\ UNCHANGED importance_index
       ELSE /\ importance_index' = SetMin(Matching(heap[df], threshold))
            /\ pc' = "p102"
    /\ UNCHANGED <<heap, df, n, threshold, plots, printed, rcFontSize, ret, evalLocals>>

\* lines 102-103: the vertical line at importance_index + 1, plt.show()
Line102 ==
    /\ pc = "p102"
    /\ plots' = Append(plots, [kind |-> "vlines", x |-> importance_index + 1])
    /\ pc' = "p105"
    /\ UNCHANGED <<heap, plotLocals, printed, rcFontSize, ret, evalLocals>>

\* lines 105-106: the 'features required' message
Line105 ==
    /\ pc = "p105"
    /\ printed' = Append(printed, [kind |-> "required",
                                   features |-> importance_index + 1,
                                   threshold |-> threshold])
    /\ pc' = "p108"
    /\ UNCHANGED <<heap, plotLocals, plots, rcFontSize, ret, evalLocals>>

\* line 108: return df
Line108 ==
    /\ pc = "p108"
    /\ ret' = [kind |-> "frame", obj |-> df]
    /\ pc' = "plot_returned"
    /\ UNCHANGED <<heap, plotLocals, plots, printed, rcFontSize, evalLocals>>

PlotNext ==
    \/ CallPlot \/ Line71 \/ Line74 \/ Line75 \/ Line77 \/ Line90
    \/ Line92 \/ Line99 \/ Line102 \/ Line105 \/ Line108

(***************************************************************************)
(* evaluate(train, train_labels, test, test_labels)                        *)
(*                                                                         *)
(* A cell of a feature table is a finite number, +inf, -inf or missing;    *)
(* the finite values themselves are not modelled.  A label or a prediction *)
(* is the abstract value "y".  An ndarray has rows but no column names;    *)
(* origin records which frame column each array column was taken from.     *)
(***************************************************************************)
Cells == {"fin", "inf", "-inf", "nan"}

Array(rs, org) == [kind |-> "array", rows |-> rs, origin |-> org]

NRows(t) == Len(t.rows)
NCols(t) == IF t.kind = "array" THEN Len(t.origin) ELSE Len(t.columns)

\* DataFrame.replace({np.inf: np.nan, -np.inf: np.nan}) on one cell
ReplaceCell(c) == IF c \in {"inf", "-inf"} THEN "nan" ELSE c

\* train.replace({...}): a new frame, infinities turned into missing values
Replace(t) ==
    Frame(t.index, t.columns,
          [i \in 1..Len(t.rows) |-> [c \in DOMAIN t.rows[i] |-> ReplaceCell(t.rows[i][c])]])

\* the column names read back to front
FeatureNamesReversed(t) == [i \in 1..Len(t.columns) |-> t.columns[Len(t.columns) + 1 - i]]

\* list(train.columns)
FeatureNames(t) == t.columns

\* the values of a frame as an array, column j being the frame's j-th column
Values(t) ==
    Array([i \in 1..Len(t.rows) |-> [j \in 1..Len(t.columns) |-> t.rows[i][t.columns[j]]]],
          t.columns)

\* the q-th smallest of a row's non-missing values, by kind
RankKind(row, q) ==
    LET a == Cardinality({j \in 1..Len(row) : row[j] = "-inf"})
        b == Cardinality({j \in 1..Len(row) : row[j] = "fin"})
    IN  IF q <= a THEN "-inf" ELSE IF q <= a + b THEN "fin" ELSE "inf"

\* the mean of two values, by kind
MeanKind(x, y) ==
    IF x = y THEN x
    ELSE IF "fin" \in {x, y} THEN (IF x = "fin" THEN y ELSE x)
    ELSE "nan"

\* Imputer's statistic for one row (strategy = 'median', axis = 1): the median
\* of the non-missing values, NaN when there is none
RowMedian(row) ==
    LET m == Cardinality({j \in 1..Len(row) : row[j] # "nan"})
    IN  IF m = 0 THEN "nan"
        ELSE IF m % 2 = 1 THEN RankKind(row, (m + 1) \div 2)
        ELSE MeanKind(RankKind(row, m \div 2), RankKind(row, m \div 2 + 1))

\* Imputer.transform with axis = 1 raises when a row has only missing values
ImputeRaises(a) == \E i \in 1..Len(a.rows) : RowMedian(a.rows[i]) = "nan"

\* Imputer(strategy = 'median', axis = 1).transform: every missing cell gets
\* its row's median; no row and no column is dropped
Impute(a) ==
    Array([i \in 1..Len(a.rows) |->
              [j \in 1..Len(a.rows[i]) |->
                  IF a.rows[i][j] = "nan" THEN RowMedian(a.rows[i]) ELSE a.rows[i][j]]],
          a.origin)

\* sklearn's input validation: no NaN and no infinity
AllFinite(a) == \A i \in 1..Len(a.rows) : \A j \in 1..Len(a.rows[i]) : a.rows[i][j] = "fin"

\* cross_val_score / model.fit reject X and y of different lengths and
\* non-finite X; 5-fold KFold rejects fewer than 5 samples
FitRaises(a, labels) == Len(labels) # NRows(a) \/ ~AllFinite(a)
CrossValRaises(a, labels) == FitRaises(a, labels) \/ NRows(a) < CV

\* model.predict(test) rejects a different number of features and non-finite X
PredictRaises(m, a) == NCols(a) # m.n_features \/ ~AllFinite(a)

\* model.predict(test): one prediction per row of test
Predict(m, a) == [i \in 1..NRows(a) |-> "y"]

\* a score that accepts vectors of any lengths
ScoreNeverRaises(labels, p) == FALSE

\* median_absolute_error(test_labels, preds) rejects vectors of different lengths
ScoreRaises(labels, p) == Len(labels) # Len(p)

\* pd.DataFrame({'feature': a, 'importance': b}) rejects columns of different lengths
FrameRaises(a, b) == Len(a) # Len(b)

\* pd.DataFrame({'feature': feature_names, 'importance': model.feature_importances_})
ImportanceFrame(fnames, imps) ==
    Frame(RangeIndex(Len(fnames)), <<"feature", "importance">>,
          [i \in 1..Len(fnames) |-> [feature |-> fnames[i], importance |-> imps[i]]])

\* feature tables: every row finite, except that row 0 may be any row that
\* is uniform or has a single cell that is not finite
SpecialRows(k) ==
    {[j \in 1..k |-> c] : c \in Cells} \cup
    {[j \in 1..k |-> IF j = pos THEN c ELSE "fin"] : pos \in 1..k, c \in Cells}

FeatureTables(rowCounts) ==
    UNION {{Frame(RangeIndex(nr), SubSeq(Names, 1, k),
                  [i \in 1..nr |-> [c \in {Names[j] : j \in 1..k} |->
                      IF i = 1 THEN s[CHOOSE j \in 1..k : Names[j] = c] ELSE "fin"]]) :
               s \in SpecialRows(k), nr \in rowCounts} : k \in 1..MaxCols}

Labels(len) == [i \in 1..len |-> "y"]

\* the call: the caller's tables are objects train_arg and test_arg
CallEvaluate ==
    /\ pc = "idle"
    /\ \E tr \in FeatureTables({CV - 1, CV}), te \in FeatureTables(1..MaxTestRows),
          dtr \in {0, 1}, dte \in {0, 1} :
          /\ heap' = [heap EXCEPT !["train_arg"] = tr, !["test_arg"] = te]
          /\ train_labels' = Labels(NRows(tr) - dtr)
          /\ test_labels' = Labels(NRows(te) + dte)
    /\ train' = "train_arg"
    /\ test' = "test_arg"
    /\ pc' = "e18"
    /\ UNCHANGED <<plotLocals, plots, printed, rcFontSize, ret, feature_names, model, preds>>

\* line 18: train = train.replace(...) binds train to a new frame
Line18 ==
    /\ pc = "e18"
    /\ heap' = [heap EXCEPT !["train_repl"] = Replace(heap[train])]
    /\ train' = "train_repl"
    /\ pc' = "e19"
    /\ UNCHANGED <<plotLocals, plots, printed, rcFontSize, ret, test, train_labels,
                   test_labels, feature_names, model, preds>>

\* line 19: test = test.replace(...)
Line19 ==
    /\ pc = "e19"
    /\ heap' = [heap EXCEPT !["test_repl"] = Replace(heap[test])]
    /\ test' = "test_repl"
    /\ pc' = "e21"
    /\ UNCHANGED <<plotLocals, plots, printed, rcFontSize, ret, train, train_labels,
                   test_labels, feature_names, model, preds>>

\* line 21: feature_names = list(train.columns)
Line21 ==
    /\ pc = "e21"
    /\ feature_names' = FeatureNames(heap[train])
    /\ pc' = "e25"
    /\ UNCHANGED <<heap, plotLocals, plots, printed, rcFontSize, ret, train, test,
                   train_labels, test_labels, model, preds>>

\* line 25: train = imputer.fit_transform(train), a new array (copy = True)
Line25 ==
    /\ pc = "e25"
    /\ IF ImputeRaises(Values(heap[train]))
       THEN /\ pc' = "eval_raised"
            /\ UNCHANGED <<heap, train>>
       ELSE /\ heap' = [heap EXCEPT !["train_arr"] = Impute(Values(heap[train]))]
            /\ train' = "train_arr"
            /\ pc' = "e26"
    /\ UNCHANGED <<plotLocals, plots, printed, rcFontSize, ret, test, train_labels,
                   test_labels, feature_names, model, preds>>

\* line 26: test = imputer.transform(test); with axis = 1 the statistics are
\* computed from test itself and the column count is not compared with train's
Line26 ==
    /\ pc = "e26"
    /\ IF ImputeRaises(Values(heap[test]))
       THEN /\ pc' = "eval_raised"
            /\ UNCHANGED <<heap, test>>
       ELSE /\ heap' = [heap EXCEPT !["test_arr"] = Impute(Values(heap[test]))]
            /\ test' = "test_arr"
            /\ pc' = "e28"
    /\ UNCHANGED <<plotLocals, plots, printed, rcFontSize, ret, train, train_labels,
                   test_labels, feature_names, model, preds>>

\* lines 28-30: cross_val_score fits clones of the model; model stays unfitted
Line28 ==
    /\ pc = "e28"
    /\ pc' = IF CrossValRaises(heap[train], train_labels) THEN "eval_raised" ELSE "e33"
    /\ UNCHANGED <<heap, plotLocals, plots, printed, rcFontSize, ret, evalLocals>>

\* line 33: model.fit(train, train_labels); the forest gets one importance
\* per column of the array it was fitted on
Line33 ==
    /\ pc = "e33"
    /\ IF FitRaises(heap[train], train_labels)
       THEN /\ pc' = "eval_raised"
            /\ UNCHANGED model
       ELSE /\ \E imp \in [1..NCols(heap[train]) -> 0..MaxImp] :
                  model' = [fitted |-> TRUE,
                            n_features |-> NCols(heap[train]),
                            fitted_on |-> heap[train].origin,
                            feature_importances_ |-> imp]
            /\ pc' = "e34"
    /\ UNCHANGED <<heap, plotLocals, plots, printed, rcFontSize, ret, train, test,
                   train_labels, test_labels, feature_names, preds>>

\* line 34: preds = model.predict(test)
Line34 ==
    /\ pc = "e34"
    /\ IF PredictRaises(model, heap[test])
       THEN /\ pc' = "eval_raised"
            /\ UNCHANGED preds
       ELSE /\ preds' = Predict(model, heap[test])
            /\ pc' = "e37"
    /\ UNCHANGED <<heap, plotLocals, plots, printed, rcFontSize, ret, train, test,
                   train_labels, test_labels, feature_names, model>>

\* lines 37-39: the test score and the two printed lines
Line37 ==
    /\ pc = "e37"
    /\ IF ScoreRaises(test_labels, preds)
       THEN /\ pc' = "eval_raised"
            /\ UNCHANGED printed
       ELSE /\ printed' = printed \o <<[kind |-> "cv_mae"], [kind |-> "test_mae"]>>
            /\ pc' = "e41"
    /\ UNCHANGED <<heap, plotLocals, plots, rcFontSize, ret, evalLocals>>

\* lines 41-44: the importance table, and the return of (preds, table)
Line41 ==
    /\ pc = "e41"
    /\ IF FrameRaises(feature_names, model.feature_importances_)
       THEN /\ pc' = "eval_raised"
            /\ UNCHANGED <<heap, ret>>
       ELSE /\ heap' = [heap EXCEPT !["importances"] =
                          ImportanceFrame(feature_names, model.feature_importances_)]
            /\ ret' = [kind |-> "tuple", preds |-> preds, obj |-> "importances"]
            /\ pc' = "eval_returned"
    /\ UNCHANGED <<plotLocals, plots, printed, rcFontSize, evalLocals>>

EvaluateNext ==
    \/ CallEvaluate \/ Line18 \/ Line19 \/ Line21 \/ Line25 \/ Line26
    \/ Line28 \/ Line33 \/ Line34 \/ Line37 \/ Line41

Next == PlotNext \/ EvaluateNext

Spec == Init /\ [][Next]_vars

(***************************************************************************)
(* Properties of plot_feature_importances                                  *)
(***************************************************************************)
PlotReturned == pc = "plot_returned"
PlotInput == heap["df_arg"]
PlotResult == heap[ret.obj]
Total(t) == SumInts(Column(t, "importance"))
NormCol == Column(PlotResult, "importance_normalized")
CumCol == Column(PlotResult, "cumulative_importance")
One == Rat(1, 1)

\* sum of s[1..i] in float arithmetic (NaN propagates)
RECURSIVE PrefixSum(_, _)
PrefixSum(s, i) == IF i = 0 THEN Rat(0, 1) ELSE Add(PrefixSum(s, i - 1), s[i])

NonDecreasing(s) == \A i \in 1..(Len(s) - 1) : Geq(s[i + 1], s[i])

Pair(r) == <<r.feature, r.importance>>

BarDrawn == Len(plots) >= 1 /\ plots[1].kind = "barh"
Smaller(a, b) == IF a <= b THEN a ELSE b

\* C6 as stated: the rows passed to the bar plot are exactly the first
\* min(n, len(df)) rows of the table sorted by descending importance.
C6_Original ==
    BarDrawn =>
        plots[1].rows = SubSeq(heap[df].rows, 1, Smaller(n, Len(heap[df].rows)))

\* the smallest k such that the first k rows reach threshold t
ReachCount(cum, t) == SetMin({k \in 1..Len(cum) : Geq(cum[k], t)})

RequiredPrinted == \E i \in 1..Len(printed) : printed[i].kind = "required"
RequiredCount == (CHOOSE m \in {printed[i] : i \in 1..Len(printed)} : m.kind = "required").features

\* C7 as stated: for 0 < t < 1 and a positive total, the number of features
\* printed is the smallest k such that the cumulative importance of the k
\* most important features is at least t.
C7_Original ==
    (/\ RequiredPrinted
     /\ Gt(threshold, Rat(0, 1)) /\ Gt(One, threshold)
     /\ Total(PlotInput) > 0) =>
        RequiredCount = ReachCount(Column(heap[df], "cumulative_importance"), threshold)

CumulativeDrawn == \E i \in 1..Len(plots) : plots[i].kind = "cumulative"

\* the table the call computes from the input alone, for some order of ties
TableOf(t, p) ==
    LET a == SortedFrame(t, p)
        b == SetColumn(a, "importance_normalized", Normalized(a))
    IN  SetColumn(b, "cumulative_importance", CumSum(Column(b, "importance_normalized")))

\* C8 as stated: a call that returns has drawn the cumulative importance plot
\* and printed the 'features required' message when a threshold was specified,
\* and has done neither when threshold is None; the returned table is the one
\* computed from df alone in both cases.
C8_Original ==
    PlotReturned =>
        /\ threshold # None => (CumulativeDrawn /\ RequiredPrinted)
        /\ threshold = None => (~CumulativeDrawn /\ ~RequiredPrinted)
        /\ \E p \in SortOrders(PlotInput) : PlotResult = TableOf(PlotInput, p)

\* the table is complete (both columns added) and the call is still running or over
CumulativeReady == pc \in {"p77", "p90", "p92", "p99", "p102", "p105", "p108",
                           "plot_returned", "plot_raised"}

\* C10 as stated: a call with a threshold that no row's cumulative importance
\* strictly exceeds does not return and prints no 'features required' message;
\* it ends with the library's error after the bar plot has been drawn.
C10_Original ==
    (/\ CumulativeReady
     /\ threshold # None
     /\ Matching(heap[df], threshold) = {}) =>
        /\ pc # "plot_returned"
        /\ pc # "p108"
        /\ ~RequiredPrinted
        /\ pc = "plot_raised" => BarDrawn

(***************************************************************************)
(* Properties of evaluate                                                  *)
(***************************************************************************)
EvalReturned == pc = "eval_returned"
TrainInput == heap["train_arg"]
TestInput == heap["test_arg"]
EvalCalled == TrainInput # NoObj

\* C4: whenever evaluate returns, the prediction vector has one entry per test
\* label and per row of test; a call in which test and test_labels differ in
\* length does not return.
C4_PredictionLength ==
    /\ EvalReturned =>
          /\ Len(ret.preds) = Len(test_labels)
          /\ Len(ret.preds) = NRows(TestInput)
    /\ (EvalCalled /\ NRows(TestInput) # Len(test_labels)) => ~EvalReturned

C4_Witness ==
    /\ EvalReturned
    /\ Len(ret.preds) = MaxTestRows
    /\ NRows(TestInput) = MaxTestRows

\* the importance the fitted model gives to the column taken from frame column c
ImportanceOf(c) ==
    model.feature_importances_[CHOOSE j \in 1..Len(model.fitted_on) : model.fitted_on[j] = c]

\* C5: whenever evaluate returns, the importance table has exactly one row per
\* column of train, in train's column order, pairing each column name with that
\* column's importance; the arrays made by replacing infinities and imputing
\* hold train's columns, none added, dropped or moved.
C5_OneRowPerFeature ==
    /\ EvalReturned =>
          /\ NRows(heap[ret.obj]) = Len(TrainInput.columns)
          /\ \A i \in 1..Len(TrainInput.columns) :
                /\ heap[ret.obj].rows[i].feature = TrainInput.columns[i]
                /\ heap[ret.obj].rows[i].importance = ImportanceOf(TrainInput.columns[i])
    /\ heap["train_repl"] # NoObj => heap["train_repl"].columns = TrainInput.columns
    /\ heap["train_arr"] # NoObj => heap["train_arr"].origin = TrainInput.columns
    /\ model.fitted => model.fitted_on = TrainInput.columns

C5_Witness ==
    /\ EvalReturned
    /\ Len(TrainInput.columns) = MaxCols
    /\ \E c \in DOMAIN TrainInput.rows[1] : TrainInput.rows[1][c] = "inf"
    /\ heap[ret.obj].rows[1].importance # heap[ret.obj].rows[MaxCols].importance

\* C9: both functions leave the caller's tables unchanged: no step of
\* plot_feature_importances changes the frame passed as df (rows, row order,
\* index, columns), and no step of evaluate changes the frames passed as train
\* and test, infinite and missing entries included.
C9_InputsUnchanged ==
    [][pc # "idle" =>
          /\ heap'["df_arg"] = heap["df_arg"]
          /\ heap'["train_arg"] = heap["train_arg"]
          /\ heap'["test_arg"] = heap["test_arg"]]_vars

HasCell(t, c) == \E i \in 1..Len(t.rows) : \E x \in DOMAIN t.rows[i] : t.rows[i][x] = c

C9_WitnessPlot ==
    /\ PlotReturned
    /\ PlotInput.columns = <<"feature", "importance">>
    /\ PlotInput.rows[1].importance < PlotInput.rows[Len(PlotInput.rows)].importance
    /\ Len(PlotResult.columns) > Len(PlotInput.columns)

C9_WitnessEvaluate ==
    /\ EvalReturned
    /\ HasCell(TrainInput, "inf") /\ ~HasCell(heap["train_arr"], "inf")
    /\ HasCell(TestInput, "nan") /\ ~HasCell(heap["test_arr"], "nan")

C9_Witness == C9_WitnessPlot \/ C9_WitnessEvaluate
====
